---- MODULE Spec2Model ----
(***************************************************************************)
(* Token issuance, validation and revocation of the user service:          *)
(* TokenService (src/src/modules/auth/token/token.service.ts) over a        *)
(* Redis key-value store and a JWT signing library.                        *)
(*                                                                         *)
(* Strings that are concatenated into store keys (emails, raw tokens) are  *)
(* sequences of one-character strings, so that key construction is real    *)
(* concatenation and two different (email, token) pairs can build the same *)
(* key.  Time is the millisecond clock Date.now().                          *)
(*                                                                         *)
(* What a call returns is not program state: each operation is an operator *)
(* from the state and the arguments to the result and the new store, the   *)
(* actions apply it, and the properties speak about the result of every    *)
(* call that can be made in a reachable state.                             *)
(***************************************************************************)
EXTENDS Integers, Sequences, FiniteSets, TLC

VARIABLES
    now,        \* Date.now(), milliseconds
    ticks,      \* number of clock advances so far (bounds the exploration)
    store,      \* Redis keys magic_link:* and verification:* : key -> [value, evictAt]
    nIssued,    \* number of raw tokens drawn from randomBytes so far
    issuedOT,   \* history: the one-time tokens handed to callers
    consumed,   \* history: <<purpose, token, email>> of every consume that returned isValid
    expiredSeen, \* history: <<purpose, token, email>> of every call answered "has expired"
    blacklist,  \* Redis keys blacklist:* : token hash -> [evictAt]
    cfg,        \* configuration read at start-up: JWT_SECRET, JWT_REFRESH_SECRET
    signed,     \* history: the signed tokens handed to callers
    revoked,    \* history: the tokens on which blacklistToken has returned normally
    pc,         \* interleaved consume calls: each caller's position
    call,       \* interleaved consume calls: each caller's arguments and result
    sweep,      \* interleaved cleanupExpiredTokens call: its position and locals
    blacklistedTokens, \* TokenUtil: the Map token -> expiry, in insertion order
    utilRevoked,       \* history: TokenUtil token -> expiry of its last blacklistToken
    freshCalls         \* number of blacklistToken steps on tokens not seen before

clockVars == <<now, ticks>>
otVars    == <<store, nIssued, issuedOT, consumed, expiredSeen>>
jwtVars   == <<blacklist, signed, revoked>>
raceVars  == <<pc, call, sweep>>
utilVars  == <<blacklistedTokens, utilRevoked, freshCalls>>

vars == <<now, ticks, store, nIssued, issuedOT, consumed, expiredSeen, blacklist,
          cfg, signed, revoked, pc, call, sweep, blacklistedTokens, utilRevoked,
          freshCalls>>

-----------------------------------------------------------------------------
(* Bounds of the exploration *)

MaxIssue == 1
MaxTicks == 2
MaxSigned == 2
MaxJwtTicks == 1
\* the largest number of keys one pattern matches in the batching checks
MaxKeys == 201
\* the number of steps that blacklist strings never seen before
MaxFreshSteps == 2

-----------------------------------------------------------------------------
(* Program constants *)

MAGIC_LINK_EXPIRY == 10 * 60 * 1000
VERIFICATION_TOKEN_EXPIRY == 24 * 60 * 60 * 1000

Purposes == {"magic_link", "verification"}

\* the TTL constant each purpose's generator uses
Expiry(purpose) ==
    IF purpose = "magic_link" THEN MAGIC_LINK_EXPIRY ELSE VERIFICATION_TOKEN_EXPIRY

\* the `type` field each generator writes into the record
RecordType(purpose) ==
    IF purpose = "magic_link" THEN "magic_link" ELSE "email_verification"

-----------------------------------------------------------------------------
(* Inputs *)

\* (userId, email) pairs a token is issued for; one email contains the key
\* separator
IssueInputs ==
    { [userId |-> "u1", email |-> <<"a">>],
      [userId |-> "u2", email |-> <<"a", ":", "b">>] }

\* emails a caller may supply to validate / consume: the issuance emails and
\* one more, as long as the first
Emails == { i.email : i \in IssueInputs } \cup { <<"b">> }

\* randomBytes(32).toString('hex'): the i-th raw token drawn.  Hex strings never
\* contain ':'; two draws are taken to differ (256 random bits).
HexDigits == <<"e", "f", "d", "c">>

RawToken(i) ==
    IF i <= 4 THEN <<HexDigits[i]>>
    ELSE <<HexDigits[((i - 1) \div 4)], HexDigits[((i - 1) % 4) + 1]>>

\* token strings a caller may supply: every raw token, and one crafted string
\* that contains the separator
SuppliedTokens ==
    { RawToken(i) : i \in 1..MaxIssue } \cup { <<"b", ":">> \o RawToken(1) }

-----------------------------------------------------------------------------
(* The key-value store *)

\* one key space for both purposes: `token:${email}:${token}`
tokenKeyNoPrefix(purpose, email, token) ==
    <<"token", ":">> \o email \o <<":">> \o token

\* `${prefix}:${email}:${token}`
tokenKey(purpose, email, token) ==
    <<purpose, ":">> \o email \o <<":">> \o token

\* SET key value, with no EX: the entry never expires
setexNoExpire(S, key, seconds, value, t) ==
    [k \in DOMAIN S \cup {key} |->
        IF k = key THEN [value |-> value, evictAt |-> 2147483647] ELSE S[k]]

\* SETEX key seconds value
setex(S, key, seconds, value, t) ==
    [k \in DOMAIN S \cup {key} |->
        IF k = key THEN [value |-> value, evictAt |-> t + seconds * 1000] ELSE S[k]]

\* DEL key...
del(S, keys) == [k \in DOMAIN S \ keys |-> S[k]]

\* the sum of a sequence of numbers
RECURSIVE SumSeq(_)
SumSeq(q) == IF q = <<>> THEN 0 ELSE Head(q) + SumSeq(Tail(q))

-----------------------------------------------------------------------------
(* Results *)

NoUser == "none"

Ret(valid, userId, err) == [isValid |-> valid, userId |-> userId, error |-> err]

ErrNotFound(purpose) ==
    IF purpose = "magic_link" THEN "Invalid or expired magic link token"
    ELSE "Invalid or expired verification token"

ErrExpired(purpose) ==
    IF purpose = "magic_link" THEN "Magic link token has expired"
    ELSE "Verification token has expired"

ErrMismatch(purpose) ==
    IF purpose = "magic_link" THEN "Invalid magic link token"
    ELSE "Invalid verification token"

ErrFailed(purpose) ==
    IF purpose = "magic_link" THEN "Failed to validate magic link token"
    ELSE "Failed to validate verification token"

-----------------------------------------------------------------------------
(* One-time tokens: what the code between two store round-trips computes *)

\* afterGet without the Date.now() > expiresAt test: a record the store still
\* serves is taken at face value
afterGetNoExpiryTest(S, key, email, t) ==
    IF key \notin DOMAIN S THEN "absent"
    ELSE LET tokenData == S[key].value IN
         IF Len(email) # Len(tokenData.email) THEN "throw"
         ELSE IF email # tokenData.email THEN "mismatch"
         ELSE "valid"

\* afterGet without the timingSafeEqual comparison: whatever record the key
\* finds is accepted for the supplied email
afterGetNoEmailTest(S, key, email, t) ==
    IF key \notin DOMAIN S THEN "absent"
    ELSE LET tokenData == S[key].value IN
         IF t > tokenData.expiresAt THEN "expired"
         ELSE "valid"

\* The synchronous part of validate that follows `await get(tokenKey)`:
\*   "absent"   the get returned null
\*   "expired"  Date.now() > tokenData.expiresAt (a del follows)
\*   "throw"    timingSafeEqual raised (buffers of different byte length)
\*   "mismatch" timingSafeEqual returned false
\*   "valid"    the record passed every check
afterGet(S, key, email, t) ==
    IF key \notin DOMAIN S THEN "absent"
    ELSE LET tokenData == S[key].value IN
         IF t > tokenData.expiresAt THEN "expired"
         ELSE IF Len(email) # Len(tokenData.email) THEN "throw"
         ELSE IF email # tokenData.email THEN "mismatch"
         ELSE "valid"

\* what validate returns for each outcome of the checks
resultOf(purpose, c, S, key) ==
    IF c = "absent" THEN Ret(FALSE, NoUser, ErrNotFound(purpose))
    ELSE IF c = "expired" THEN Ret(FALSE, NoUser, ErrExpired(purpose))
    ELSE IF c = "throw" THEN Ret(FALSE, NoUser, ErrFailed(purpose))
    ELSE IF c = "mismatch" THEN Ret(FALSE, NoUser, ErrMismatch(purpose))
    ELSE Ret(TRUE, S[key].value.userId, "none")

\* validate that reports an expired record and leaves it in the store
ValidateOneTimeNoEagerDel(purpose, token, email, S, t, fail) ==
    LET key == tokenKey(purpose, email, token)
        c   == afterGet(S, key, email, t)
    IN  IF fail = "get"
            THEN [store |-> S, res |-> Ret(FALSE, NoUser, ErrFailed(purpose))]
        ELSE [store |-> S, res |-> resultOf(purpose, c, S, key)]

\* validate that deletes the record it has just accepted
ValidateOneTimeConsuming(purpose, token, email, S, t, fail) ==
    LET key == tokenKey(purpose, email, token)
        c   == afterGet(S, key, email, t)
    IN  IF fail = "get"
            THEN [store |-> S, res |-> Ret(FALSE, NoUser, ErrFailed(purpose))]
        ELSE IF c \in {"expired", "valid"}
            THEN IF fail = "del"
                 THEN [store |-> S, res |-> Ret(FALSE, NoUser, ErrFailed(purpose))]
                 ELSE [store |-> del(S, {key}), res |-> resultOf(purpose, c, S, key)]
        ELSE [store |-> S, res |-> resultOf(purpose, c, S, key)]

\* validateMagicLinkToken / validateVerificationToken run without interleaving.
\* fail names the store call that raises during this call, if any; every
\* exception inside validate is caught and answered with the generic failure.
ValidateOneTime(purpose, token, email, S, t, fail) ==
    LET key == tokenKey(purpose, email, token)
        c   == afterGet(S, key, email, t)
    IN  IF fail = "get"
            THEN [store |-> S, res |-> Ret(FALSE, NoUser, ErrFailed(purpose))]
        ELSE IF c = "expired"
            THEN IF fail = "del"
                 THEN [store |-> S, res |-> Ret(FALSE, NoUser, ErrFailed(purpose))]
                 ELSE [store |-> del(S, {key}), res |-> resultOf(purpose, c, S, key)]
        ELSE [store |-> S, res |-> resultOf(purpose, c, S, key)]

\* consume that returns what validate answered and deletes nothing
ConsumeOneTimeNoDel(purpose, token, email, S, t, fail) ==
    LET v == ValidateOneTime(purpose, token, email, S, t, fail)
    IN  [store |-> v.store, res |-> v.res, threw |-> "none"]

\* consume that deletes the key whatever validate answered
ConsumeOneTimeDelAlways(purpose, token, email, S, t, fail) ==
    LET v   == ValidateOneTime(purpose, token, email, S, t, fail)
        key == tokenKey(purpose, email, token)
    IN  IF fail = "del"
        THEN [store |-> v.store, res |-> v.res, threw |-> "StoreError"]
        ELSE [store |-> del(v.store, {key}), res |-> v.res, threw |-> "none"]

\* the store calls one consume makes, in order: the get of validate, the del
\* of an expired record inside validate, the del after a valid result
consumeCalls(purpose, token, email, S, t, fail) ==
    LET c == afterGet(S, tokenKey(purpose, email, token), email, t)
    IN  IF fail = "get" THEN <<"get">>
        ELSE IF c \in {"expired", "valid"} THEN <<"get", "del">>
        ELSE <<"get">>

\* consume with the del wrapped in a try/catch that swallows the store error
ConsumeOneTimeSwallowDel(purpose, token, email, S, t, fail) ==
    LET v   == ValidateOneTime(purpose, token, email, S, t, fail)
        key == tokenKey(purpose, email, token)
    IN  IF v.res.isValid /\ fail # "del"
        THEN [store |-> del(v.store, {key}), res |-> v.res, threw |-> "none"]
        ELSE [store |-> v.store, res |-> v.res, threw |-> "none"]

\* consumeMagicLinkToken / consumeVerificationToken run without interleaving.
\* The del after a successful validation is outside any try/catch: when it
\* raises, the store error reaches the caller and no result is returned.
ConsumeOneTime(purpose, token, email, S, t, fail) ==
    LET v   == ValidateOneTime(purpose, token, email, S, t, fail)
        key == tokenKey(purpose, email, token)
    IN  IF v.res.isValid
        THEN IF fail = "del"
             THEN [store |-> v.store, res |-> v.res, threw |-> "StoreError"]
             ELSE [store |-> del(v.store, {key}), res |-> v.res, threw |-> "none"]
        ELSE [store |-> v.store, res |-> v.res, threw |-> "none"]

-----------------------------------------------------------------------------
(* One-time tokens: issuance *)

\* which store call of an operation raises (store unreachable or timed out)
IssueFail == {"none", "set"}
ReadFail  == {"none", "get", "del"}

NoRaw == <<>>

\* generateMagicLinkToken / generateVerificationTokenWithExpiry, drawing the
\* n-th raw token at time t: the store afterwards, the raw token returned and
\* the exception raised.  A failed setex is rethrown as
\* InternalServerErrorException and no token is returned.
\* issue that gives every purpose the magic-link lifetime
IssueOneTimeSameExpiry(purpose, userId, email, S, t, n, fail) ==
    LET token     == RawToken(n)
        expiresAt == t + MAGIC_LINK_EXPIRY
        tokenData == [userId |-> userId, email |-> email,
                      expiresAt |-> expiresAt, type |-> RecordType(purpose)]
        key       == tokenKey(purpose, email, token)
    IN  IF fail = "set"
        THEN [store |-> S, token |-> NoRaw, expiresAt |-> expiresAt,
              threw |-> "InternalServerErrorException"]
        ELSE [store |-> setex(S, key, MAGIC_LINK_EXPIRY \div 1000, tokenData, t),
              token |-> token, expiresAt |-> expiresAt, threw |-> "none"]

IssueOneTime(purpose, userId, email, S, t, n, fail) ==
    LET token     == RawToken(n)
        expiresAt == t + Expiry(purpose)
        tokenData == [userId |-> userId, email |-> email,
                      expiresAt |-> expiresAt, type |-> RecordType(purpose)]
        key       == tokenKey(purpose, email, token)
    IN  IF fail = "set"
        THEN [store |-> S, token |-> NoRaw, expiresAt |-> expiresAt,
              threw |-> "InternalServerErrorException"]
        ELSE [store |-> setex(S, key, Expiry(purpose) \div 1000, tokenData, t),
              token |-> token, expiresAt |-> expiresAt, threw |-> "none"]

-----------------------------------------------------------------------------
(* One-time tokens: the facade's operations as steps *)

IssueStep(purpose, userId, email, fail) ==
    /\ nIssued < MaxIssue
    /\ LET r == IssueOneTime(purpose, userId, email, store, now, nIssued + 1, fail)
       IN  /\ nIssued' = nIssued + 1
           /\ store' = r.store
           /\ issuedOT' = IF r.threw = "none"
                          THEN issuedOT \cup
                                 {[purpose |-> purpose, token |-> r.token,
                                   email |-> email, userId |-> userId,
                                   expiresAt |-> r.expiresAt]}
                          ELSE issuedOT
    /\ UNCHANGED <<clockVars, consumed, expiredSeen, jwtVars, cfg, raceVars, utilVars>>

generateMagicLinkToken(userId, email, fail) ==
    IssueStep("magic_link", userId, email, fail)

generateVerificationTokenWithExpiry(userId, email, fail) ==
    IssueStep("verification", userId, email, fail)

ValidateStep(purpose, token, email, fail) ==
    LET r == ValidateOneTime(purpose, token, email, store, now, fail)
    IN  /\ store' = r.store
        /\ expiredSeen' = IF r.res.error = ErrExpired(purpose)
                          THEN expiredSeen \cup {<<purpose, token, email>>}
                          ELSE expiredSeen
        /\ UNCHANGED <<clockVars, nIssued, issuedOT, consumed, jwtVars, cfg, raceVars, utilVars>>

validateMagicLinkToken(token, email, fail) ==
    ValidateStep("magic_link", token, email, fail)

validateVerificationToken(token, email, fail) ==
    ValidateStep("verification", token, email, fail)

ConsumeStep(purpose, token, email, fail) ==
    LET r == ConsumeOneTime(purpose, token, email, store, now, fail)
    IN  /\ store' = r.store
        /\ consumed' = IF r.threw = "none" /\ r.res.isValid
                       THEN consumed \cup {<<purpose, token, email>>}
                       ELSE consumed
        /\ expiredSeen' = IF r.res.error = ErrExpired(purpose)
                          THEN expiredSeen \cup {<<purpose, token, email>>}
                          ELSE expiredSeen
        /\ UNCHANGED <<clockVars, nIssued, issuedOT, jwtVars, cfg, raceVars, utilVars>>

consumeMagicLinkToken(token, email, fail) ==
    ConsumeStep("magic_link", token, email, fail)

consumeVerificationToken(token, email, fail) ==
    ConsumeStep("verification", token, email, fail)

-----------------------------------------------------------------------------
(* Signed tokens: the signing library *)

ACCESS_TOKEN_EXPIRY == 15 * 60
REFRESH_TOKEN_EXPIRY == 7 * 24 * 60 * 60

Issuer == "lawrose-user-service"
Audience == "lawrose-app"

\* configService.get(name) of a variable that is not set
Unset == "undefined"

Configs == [JWT_SECRET : {"k1"}, JWT_REFRESH_SECRET : {"k2", Unset}]

\* payloads callers pass to the generators
Payloads ==
    { [sub |-> "u1", email |-> <<"a">>, emailVerified |-> FALSE],
      [sub |-> "u2", email |-> <<"b">>, emailVerified |-> TRUE] }

TokenKinds == {"access", "refresh"}

\* a || b of JavaScript on configuration values
OrElse(a, b) == IF a = Unset THEN b ELSE a

\* jwtService.signAsync(payload, {secret, expiresIn, issuer, audience}): the
\* compact token is a function of the claims, the second it is signed in and
\* the key; the same claims signed in the same second give the same string.
sign(tokenPayload, secret, expiresIn, t) ==
    [sub |-> tokenPayload.sub, email |-> tokenPayload.email,
     emailVerified |-> tokenPayload.emailVerified, type |-> tokenPayload.type,
     iat |-> t \div 1000, exp |-> (t \div 1000) + expiresIn,
     iss |-> Issuer, aud |-> Audience, key |-> secret]

\* Token strings that reach the facade from outside: one that is no JWT at
\* all, and a JWT signed elsewhere that carries no exp claim.
Malformed == [raw |-> "not-a-jwt"]

NoExpiry ==
    [sub |-> "u1", email |-> <<"a">>, emailVerified |-> FALSE, type |-> "access",
     iat |-> 0, iss |-> Issuer, aud |-> Audience, key |-> "k0"]

ForeignTokens == {Malformed, NoExpiry}

Null == [null |-> TRUE]

\* jwtService.decode(token): the claims, unverified; null for a string that
\* is no JWT
decode(token) ==
    IF "sub" \notin DOMAIN token THEN Null
    ELSE IF "exp" \notin DOMAIN token
    THEN [sub |-> token.sub, email |-> token.email,
          emailVerified |-> token.emailVerified, type |-> token.type,
          iat |-> token.iat, iss |-> token.iss, aud |-> token.aud]
    ELSE [sub |-> token.sub, email |-> token.email, emailVerified |-> token.emailVerified,
          type |-> token.type, iat |-> token.iat, exp |-> token.exp,
          iss |-> token.iss, aud |-> token.aud]

\* decoded && decoded.exp
hasExp(token) ==
    /\ decode(token) # Null
    /\ "exp" \in DOMAIN decode(token)
    /\ decode(token).exp # 0

\* jwtService.verify(token, {secret, issuer, audience}): "ok", or the message of
\* the error it raises
verify(token, secret, t) ==
    IF decode(token) = Null THEN "jwt malformed"
    ELSE IF secret = Unset THEN "secret or public key must be provided"
    ELSE IF token.key # secret THEN "invalid signature"
    ELSE IF "exp" \in DOMAIN token /\ (t \div 1000) >= token.exp THEN "jwt expired"
    ELSE IF token.aud # Audience THEN "jwt audience invalid"
    ELSE IF token.iss # Issuer THEN "jwt issuer invalid"
    ELSE "ok"

\* a digest that does not depend on the token: every token shares one key
hashTokenConstant(token) == [sha256 |-> "0"]

\* createHash('sha256').update(token).digest('hex'): one digest per token string
hashToken(token) == [sha256 |-> token]

blacklistKey(token) == <<"blacklist", ":", hashToken(token)>>

-----------------------------------------------------------------------------
(* Signed tokens: the facade's operations *)

NoToken == [none |-> TRUE]

\* generateAccessToken: the token, or NoToken when signing raised
accessTokenFor(payload, c, t) ==
    IF c.JWT_SECRET = Unset THEN NoToken
    ELSE sign([sub |-> payload.sub, email |-> payload.email,
               emailVerified |-> payload.emailVerified, type |-> "access"],
              c.JWT_SECRET, ACCESS_TOKEN_EXPIRY, t)

\* generateRefreshToken: the token, or NoToken when signing raised
refreshTokenFor(payload, c, t) ==
    LET secret == OrElse(c.JWT_REFRESH_SECRET, c.JWT_SECRET)
    IN  IF secret = Unset THEN NoToken
        ELSE sign([sub |-> payload.sub, email |-> payload.email,
                   emailVerified |-> payload.emailVerified, type |-> "refresh"],
                  secret, REFRESH_TOKEN_EXPIRY, t)

\* isTokenBlacklisted answering true when the lookup fails
isTokenBlacklistedFailClosed(token, B, fail) ==
    IF fail = "get" THEN TRUE ELSE blacklistKey(token) \in DOMAIN B

\* isTokenBlacklisted: a failed lookup is caught and answered false
isTokenBlacklisted(token, B, fail) ==
    IF fail = "get" THEN FALSE ELSE blacklistKey(token) \in DOMAIN B

NoPayload == [none |-> TRUE]

JwtRet(valid, payload, err) == [isValid |-> valid, payload |-> payload, error |-> err]

\* the secret validateToken verifies a token of the expected type with
secretFor(type, c) ==
    IF type = "refresh" THEN OrElse(c.JWT_REFRESH_SECRET, c.JWT_SECRET)
    ELSE c.JWT_SECRET

\* validateToken without the payload.type comparison
validateTokenResultNoTypeTest(token, type, B, c, t, fail) ==
    IF isTokenBlacklisted(token, B, fail)
    THEN JwtRet(FALSE, NoPayload, "Token has been revoked")
    ELSE LET v == verify(token, secretFor(type, c), t)
         IN  IF v # "ok" THEN JwtRet(FALSE, NoPayload, v)
             ELSE JwtRet(TRUE, decode(token), "none")

\* validateToken that verifies first and looks the revocation up afterwards
validateTokenResultVerifyFirst(token, type, B, c, t, fail) ==
    LET v == verify(token, secretFor(type, c), t)
    IN  IF v # "ok" THEN JwtRet(FALSE, NoPayload, v)
        ELSE IF decode(token).type # type
             THEN JwtRet(FALSE, NoPayload, "Invalid token type")
        ELSE IF isTokenBlacklisted(token, B, fail)
             THEN JwtRet(FALSE, NoPayload, "Token has been revoked")
        ELSE JwtRet(TRUE, decode(token), "none")

\* the collaborator calls validateToken makes, in order
validateTokenCalls(token, type, B, fail) ==
    IF isTokenBlacklisted(token, B, fail) THEN <<"isTokenBlacklisted">>
    ELSE <<"isTokenBlacklisted", "verify">>

\* validateToken(token, type); the type check is skipped for a payload that has
\* no type claim, which no token signed by the generators is
validateTokenResult(token, type, B, c, t, fail) ==
    IF isTokenBlacklisted(token, B, fail)
    THEN JwtRet(FALSE, NoPayload, "Token has been revoked")
    ELSE LET v == verify(token, secretFor(type, c), t)
         IN  IF v # "ok" THEN JwtRet(FALSE, NoPayload, v)
             ELSE IF decode(token).type # type
                  THEN JwtRet(FALSE, NoPayload, "Invalid token type")
             ELSE JwtRet(TRUE, decode(token), "none")

\* the ttl blacklistToken computes, in seconds
blacklistTtl(token, t) == decode(token).exp - (t \div 1000)

\* blacklistToken without the ttl > 0 test: the entry is written in any case
blacklistAfterNoTtlTest(token, B, t) ==
    setex(B, blacklistKey(token), blacklistTtl(token, t), "1", t)

\* the revocation entries after blacklistToken(token) has written (or not)
blacklistAfter(token, B, t) ==
    IF blacklistTtl(token, t) > 0
    THEN setex(B, blacklistKey(token), blacklistTtl(token, t), "1", t)
    ELSE B

-----------------------------------------------------------------------------
(* Signed tokens: the facade's operations as steps *)

\* which signAsync call of generateTokenPair rejects
SignFail == {"none", "access", "refresh"}

\* generateTokenPair that hands back whatever was signed (the two generators
\* awaited with allSettled instead of all)
tokenPairResultPartial(payload, c, t, fail) ==
    LET accessToken  == IF fail = "access" THEN NoToken
                        ELSE accessTokenFor(payload, c, t)
        refreshToken == IF fail = "refresh" THEN NoToken
                        ELSE refreshTokenFor(payload, c, t)
    IN  [threw |-> "none", tokens |-> {accessToken, refreshToken} \ {NoToken},
         accessToken |-> accessToken, refreshToken |-> refreshToken]

\* generateTokenPair: Promise.all of the two generators: both tokens, or the
\* error of the one that failed (each generator turns a rejected signAsync
\* into InternalServerErrorException, which generateTokenPair rethrows)
tokenPairResult(payload, c, t, fail) ==
    LET accessToken  == IF fail = "access" THEN NoToken
                        ELSE accessTokenFor(payload, c, t)
        refreshToken == IF fail = "refresh" THEN NoToken
                        ELSE refreshTokenFor(payload, c, t)
    IN  IF accessToken = NoToken \/ refreshToken = NoToken
        THEN [threw |-> "InternalServerErrorException", tokens |-> {}]
        ELSE [threw |-> "none", tokens |-> {accessToken, refreshToken},
              accessToken |-> accessToken, refreshToken |-> refreshToken]

\* generateTokenPair when both signAsync calls resolve
tokenPairFor(payload, c, t) == tokenPairResult(payload, c, t, "none")

SignStep(tokens) ==
    /\ Cardinality(signed \cup tokens) <= MaxSigned
    /\ signed' = signed \cup tokens
    /\ UNCHANGED <<clockVars, otVars, blacklist, revoked, cfg, raceVars, utilVars>>

generateAccessToken(payload) ==
    SignStep({accessTokenFor(payload, cfg, now)} \ {NoToken})

generateRefreshToken(payload) ==
    SignStep({refreshTokenFor(payload, cfg, now)} \ {NoToken})

generateTokenPair(payload, fail) ==
    SignStep(tokenPairResult(payload, cfg, now, fail).tokens)

JwtReadFail == {"none", "get"}
JwtWriteFail == {"none", "set"}

\* validateToken reads the store and changes nothing
validateToken(token, type, fail) ==
    /\ validateTokenResult(token, type, blacklist, cfg, now, fail).isValid \in BOOLEAN
    /\ UNCHANGED vars

\* blacklistToken(token): the entries afterwards and the exception raised; a
\* failed setex is rethrown as InternalServerErrorException; a token that does
\* not decode, or decodes without exp, skips the if and the call returns
blacklistTokenResult(token, B, t, fail) ==
    IF ~hasExp(token) THEN [blacklist |-> B, threw |-> "none"]
    ELSE IF blacklistTtl(token, t) > 0 /\ fail = "set"
    THEN [blacklist |-> B, threw |-> "InternalServerErrorException"]
    ELSE [blacklist |-> blacklistAfter(token, B, t), threw |-> "none"]

blacklistToken(token, fail) ==
    LET r == blacklistTokenResult(token, blacklist, now, fail)
    IN  /\ blacklist' = r.blacklist
        /\ revoked' = IF r.threw = "none" THEN revoked \cup {token} ELSE revoked
        /\ UNCHANGED <<clockVars, otVars, signed, cfg, raceVars, utilVars>>

-----------------------------------------------------------------------------
(* The sweeper *)

batchSize == 100

\* keys(pattern) for the patterns 'magic_link:*' and 'verification:*'
keysOf(S, prefix) == { k \in DOMAIN S : k[1] = prefix }

\* the inner loop without the slicing: every key of a pattern in one del
batchSizesUnsliced(n) == [i \in 1..(IF n = 0 THEN 0 ELSE 1) |-> n]

\* the sizes of the batches the inner loop passes to del
batchSizes(n) ==
    [i \in 1..((n + batchSize - 1) \div batchSize) |->
        IF n - batchSize * (i - 1) < batchSize THEN n - batchSize * (i - 1)
        ELSE batchSize]

\* cleanupExpiredTokens.  failAt = 0: every store call succeeds; failAt = i: a
\* store call made for the i-th pattern raises, after the patterns before it
\* were deleted.
cleanupResult(S, B, failAt) ==
    LET mk == keysOf(S, "magic_link")
        vk == keysOf(S, "verification")
        bk == DOMAIN B
    IN  [store |-> del(S, (IF failAt \in {0, 2, 3} THEN mk ELSE {})
                            \cup (IF failAt \in {0, 3} THEN vk ELSE {})),
         blacklist |-> del(B, IF failAt = 0 THEN bk ELSE {}),
         threw |-> IF failAt = 0 THEN "none" ELSE "InternalServerErrorException",
         removedCount |-> Cardinality(mk) + Cardinality(vk) + Cardinality(bk),
         delCalls |-> batchSizes(Cardinality(mk)) \o batchSizes(Cardinality(vk))
                        \o batchSizes(Cardinality(bk))]

cleanupExpiredTokens(failAt) ==
    LET r == cleanupResult(store, blacklist, failAt)
    IN  /\ store' = r.store
        /\ blacklist' = r.blacklist
        /\ UNCHANGED <<clockVars, nIssued, issuedOT, consumed, expiredSeen, signed,
                       revoked, cfg, raceVars, utilVars>>

-----------------------------------------------------------------------------
(* The environment: the clock and the store's TTL eviction *)

\* the model's integers are 32 bits wide: the clock stays where every sum of a
\* time and a TTL is representable
ClockHorizon == 2 * REFRESH_TOKEN_EXPIRY * 1000

Tick(d, maxTicks) ==
    /\ ticks < maxTicks
    /\ now + d <= ClockHorizon
    /\ now' = now + d
    /\ ticks' = ticks + 1
    /\ UNCHANGED <<otVars, jwtVars, cfg, raceVars, utilVars>>

\* the clock moving past every TTL the facade hands out; entries are written
\* up to ClockHorizon, so the step is enabled after every write
FarStep == REFRESH_TOKEN_EXPIRY * 1000 + 1000

TickFar ==
    /\ now <= ClockHorizon
    /\ now' = now + FarStep
    /\ UNCHANGED <<ticks, otVars, jwtVars, cfg, raceVars, utilVars>>

\* Redis removes a key once the clock has passed its expire time (SETEX time
\* plus TTL); how long after that the key is still served is left open
EvictStore(k) ==
    /\ k \in DOMAIN store
    /\ now > store[k].evictAt
    /\ store' = del(store, {k})
    /\ UNCHANGED <<clockVars, nIssued, issuedOT, consumed, expiredSeen, jwtVars, cfg,
                   raceVars, utilVars>>

EvictBlacklist(k) ==
    /\ k \in DOMAIN blacklist
    /\ now > blacklist[k].evictAt
    /\ blacklist' = del(blacklist, {k})
    /\ UNCHANGED <<clockVars, otVars, signed, revoked, cfg, raceVars, utilVars>>

-----------------------------------------------------------------------------
(* Specifications *)

Callers == {1, 2}

EmptyStore == [k \in {} |-> 0]

NoCall == [none |-> TRUE]

\* no cleanupExpiredTokens call is in progress
NoSweep == [pc |-> "idle", pattern |-> 0, keys |-> {}, removedCount |-> 0,
            removed |-> 0]

InitWith(c) ==
    /\ now = 0
    /\ ticks = 0
    /\ store = EmptyStore
    /\ nIssued = 0
    /\ issuedOT = {}
    /\ consumed = {}
    /\ expiredSeen = {}
    /\ blacklist = EmptyStore
    /\ cfg = c
    /\ signed = {}
    /\ revoked = {}
    /\ pc = [p \in Callers |-> "idle"]
    /\ call = [p \in Callers |-> NoCall]
    /\ sweep = NoSweep
    /\ blacklistedTokens = <<>>
    /\ utilRevoked = <<>>
    /\ freshCalls = 0

Init == InitWith([JWT_SECRET |-> "k1", JWT_REFRESH_SECRET |-> "k2"])

OTDeltas == {1, MAGIC_LINK_EXPIRY, VERIFICATION_TOKEN_EXPIRY}

TickOT == \E d \in OTDeltas : Tick(d, MaxTicks)

\* One-time tokens and the sweeper, one call at a time
Next ==
    \/ \E i \in IssueInputs, f \in IssueFail :
          generateMagicLinkToken(i.userId, i.email, f)
    \/ \E i \in IssueInputs, f \in IssueFail :
          generateVerificationTokenWithExpiry(i.userId, i.email, f)
    \/ \E t \in SuppliedTokens, e \in Emails, f \in ReadFail :
          validateMagicLinkToken(t, e, f)
    \/ \E t \in SuppliedTokens, e \in Emails, f \in ReadFail :
          validateVerificationToken(t, e, f)
    \/ \E t \in SuppliedTokens, e \in Emails, f \in ReadFail :
          consumeMagicLinkToken(t, e, f)
    \/ \E t \in SuppliedTokens, e \in Emails, f \in ReadFail :
          consumeVerificationToken(t, e, f)
    \/ \E i \in 0..3 : cleanupExpiredTokens(i)
    \/ TickOT
    \/ \E k \in DOMAIN store : EvictStore(k)

Spec == Init /\ [][Next]_vars

-----------------------------------------------------------------------------
(* cleanupExpiredTokens interleaved with the other operations *)

\* const patterns = ['magic_link:*', 'verification:*', 'blacklist:*']
patterns == <<"magic_link", "verification", "blacklist">>

Min(a, b) == IF a < b THEN a ELSE b

\* cleanupExpiredTokens is called: removedCount = 0, the first pattern is next.
\* sweep.removed is history: the number of keys the del calls of this sweep
\* took out of the store (the integer reply of DEL, which the code drops).
SweepStart ==
    /\ sweep.pc = "idle"
    /\ sweep' = [pc |-> "keys", pattern |-> 1, keys |-> {}, removedCount |-> 0,
                 removed |-> 0]
    /\ UNCHANGED <<clockVars, otVars, jwtVars, cfg, pc, call, utilVars>>

\* `await keys(pattern)` returns the keys that match now; an empty reply skips
\* to the next pattern, and after the last pattern the call returns
SweepKeys ==
    /\ sweep.pc = "keys"
    /\ LET listed == IF sweep.pattern = 3 THEN DOMAIN blacklist
                     ELSE keysOf(store, patterns[sweep.pattern])
       IN  sweep' = IF listed # {}
                       THEN [sweep EXCEPT !.pc = "del", !.keys = listed]
                    ELSE IF sweep.pattern < Len(patterns)
                       THEN [sweep EXCEPT !.pattern = @ + 1]
                    ELSE [sweep EXCEPT !.pc = "done"]
    /\ UNCHANGED <<clockVars, otVars, jwtVars, cfg, pc, call, utilVars>>

\* `await del(...batch)` returns for the next slice of at most batchSize listed
\* keys (in the order of the KEYS reply, which is any order);
\* removedCount += batch.length
SweepDel ==
    /\ sweep.pc = "del"
    /\ \E batch \in SUBSET sweep.keys :
          /\ Cardinality(batch) = Min(batchSize, Cardinality(sweep.keys))
          /\ store' = del(store, batch)
          /\ blacklist' = del(blacklist, batch)
          /\ sweep' =
                [pc |-> IF sweep.keys \ batch # {} THEN "del"
                        ELSE IF sweep.pattern < Len(patterns) THEN "keys"
                        ELSE "done",
                 pattern |-> IF sweep.keys \ batch = {}
                                  /\ sweep.pattern < Len(patterns)
                             THEN sweep.pattern + 1 ELSE sweep.pattern,
                 keys |-> sweep.keys \ batch,
                 removedCount |-> sweep.removedCount + Cardinality(batch),
                 removed |-> sweep.removed
                    + Cardinality(batch \cap (DOMAIN store \cup DOMAIN blacklist))]
    /\ UNCHANGED <<clockVars, nIssued, issuedOT, consumed, expiredSeen, signed,
                   revoked, cfg, pc, call, utilVars>>

\* one sweep, with issuance, consume, validate (and its deletion of an expired
\* record), the clock and TTL eviction between its store calls
NextSweep ==
    \/ \E i \in IssueInputs : generateMagicLinkToken(i.userId, i.email, "none")
    \/ \E i \in IssueInputs :
          generateVerificationTokenWithExpiry(i.userId, i.email, "none")
    \/ \E rec \in issuedOT : ValidateStep(rec.purpose, rec.token, rec.email, "none")
    \/ \E rec \in issuedOT : ConsumeStep(rec.purpose, rec.token, rec.email, "none")
    \/ SweepStart
    \/ SweepKeys
    \/ SweepDel
    \/ TickOT
    \/ \E k \in DOMAIN store : EvictStore(k)

SpecSweep == Init /\ [][NextSweep]_vars

-----------------------------------------------------------------------------
(* TokenUtil (src/src/utils/token.util.ts): the in-process blacklist *)

\* private readonly maxBlacklistSize = 10000
maxBlacklistSize == 10000

\* the default expiry of blacklistToken: Date.now() + 24 * 60 * 60 * 1000
DefaultBlacklistMs == 24 * 60 * 60 * 1000

\* configService.get('JWT_ACCESS_SECRET')
AccessSecret == "ka"

\* the tokens the calls below are made on: access tokens signed at time 0 with
\* the default JWT_ACCESS_EXPIRES_IN of 30 minutes
UtilTokens ==
    { [userId |-> u, iat |-> 0, exp |-> 30 * 60, key |-> AccessSecret] :
        u \in {"u1", "u2"} }

\* a token string other than those of UtilTokens and other than every key of
\* the map: each call on Fresh is a call on one more new string
Fresh == [fresh |-> TRUE]

\* The Map in iteration (insertion) order.  An entry of UtilTokens is a run of
\* n = 1; the entries of fresh strings inserted one after the other with one
\* expiry are one run that counts them.
runOf(token, expiry, n) == [token |-> token, expiry |-> expiry, n |-> n]

\* blacklistedTokens.size
size(M) == SumSeq([i \in DOMAIN M |-> M[i].n])

\* blacklistedTokens.has(token); a fresh string is never a key
has(M, token) == token # Fresh /\ \E i \in DOMAIN M : M[i].token = token

\* blacklistedTokens.get(token); 0 stands for undefined
get(M, token) ==
    IF has(M, token)
    THEN M[CHOOSE i \in DOMAIN M : M[i].token = token].expiry
    ELSE 0

\* blacklistedTokens.delete(blacklistedTokens.keys().next().value)
deleteOldest(M) ==
    IF M = <<>> THEN M
    ELSE IF M[1].n > 1 THEN [M EXCEPT ![1].n = @ - 1]
    ELSE Tail(M)

\* blacklistedTokens.delete(token)
delete(M, token) == SelectSeq(M, LAMBDA r : r.token # token)

\* blacklistedTokens.set(token, expiry): a key the map holds keeps its place
set(M, token, expiry) ==
    IF has(M, token)
    THEN [i \in DOMAIN M |->
            IF M[i].token = token THEN runOf(token, expiry, 1) ELSE M[i]]
    ELSE IF M # <<>> /\ token = Fresh /\ M[Len(M)].token = Fresh
                     /\ M[Len(M)].expiry = expiry
    THEN [M EXCEPT ![Len(M)].n = @ + 1]
    ELSE Append(M, runOf(token, expiry, 1))

\* expiresAt ? expiresAt.getTime() : Date.now() + 24 * 60 * 60 * 1000
NoDate == 0

expiryOf(expiresAt, t) == IF expiresAt # NoDate THEN expiresAt ELSE t + DefaultBlacklistMs

\* blacklistToken that inserts without looking at the size of the map
TokenUtil_blacklistTokenNoEvict(M, token, expiresAt, t) ==
    set(M, token, expiryOf(expiresAt, t))

\* TokenUtil.blacklistToken(token, expiresAt?)
TokenUtil_blacklistToken(M, token, expiresAt, t) ==
    LET expiry == expiryOf(expiresAt, t)
    IN  IF size(M) >= maxBlacklistSize
        THEN set(deleteOldest(M), token, expiry)
        ELSE set(M, token, expiry)

\* the first d entries of the map deleted
RECURSIVE dropOldest(_, _)
dropOldest(M, d) ==
    IF d = 0 \/ M = <<>> THEN M
    ELSE IF M[1].n > d THEN [M EXCEPT ![1].n = @ - d]
    ELSE dropOldest(Tail(M), d - M[1].n)

\* k calls blacklistToken(fresh string), one after the other with no other
\* call in between (1 <= k <= maxBlacklistSize): the calls made while the map
\* is full delete its oldest entry each, and the k strings end up as the
\* newest entries
TokenUtil_blacklistFresh(M, k, t) ==
    LET s == size(M)
        d == IF s + k > maxBlacklistSize THEN s + k - maxBlacklistSize ELSE 0
        D == dropOldest(M, d)
        e == t + DefaultBlacklistMs
    IN  IF D # <<>> /\ D[Len(D)].token = Fresh /\ D[Len(D)].expiry = e
        THEN [D EXCEPT ![Len(D)].n = @ + k]
        ELSE Append(D, runOf(Fresh, e, k))

\* TokenUtil.isTokenBlacklisted(token): the answer and the map afterwards
TokenUtil_isTokenBlacklisted(M, token, t) ==
    LET expiry == get(M, token)
    IN  IF expiry = 0 THEN [map |-> M, res |-> FALSE]
        ELSE IF t > expiry THEN [map |-> delete(M, token), res |-> FALSE]
        ELSE [map |-> M, res |-> TRUE]

\* jwtService.verify(token, {secret}): "ok" or the message of the error raised
utilVerify(token, secret, t) ==
    IF token.key # secret THEN "invalid signature"
    ELSE IF (t \div 1000) >= token.exp THEN "jwt expired"
    ELSE "ok"

\* TokenUtil.verifyToken(token, secret?): "ok" when the payload is returned,
\* otherwise the message of the Error thrown; the map afterwards
TokenUtil_verifyToken(M, token, secret, t) ==
    LET b == TokenUtil_isTokenBlacklisted(M, token, t)
        v == utilVerify(token, OrElse(secret, AccessSecret), t)
    IN  IF b.res THEN [map |-> b.map, res |-> "Token has been revoked"]
        ELSE IF v = "ok" THEN [map |-> b.map, res |-> "ok"]
        ELSE [map |-> b.map, res |-> "Invalid token: " \o v]

\* TokenUtil.cleanExpiredTokens(): every entry with now > expiry is deleted
TokenUtil_cleanExpiredTokens(M, t) == SelectSeq(M, LAMBDA r : ~(t > r.expiry))

\* the dates a caller passes as expiresAt: none, or the token's own exp
ExpiresAtOf(token) == {NoDate, token.exp * 1000}

\* the lengths of the runs of calls on fresh strings
FreshRuns == {1, maxBlacklistSize - 1}

BlacklistStep(token, expiresAt) ==
    /\ now <= ClockHorizon
    /\ blacklistedTokens' = TokenUtil_blacklistToken(blacklistedTokens, token,
                                                    expiresAt, now)
    /\ utilRevoked' = [u \in DOMAIN utilRevoked \cup {token} |->
                         IF u = token THEN expiryOf(expiresAt, now)
                         ELSE utilRevoked[u]]
    /\ UNCHANGED <<clockVars, otVars, jwtVars, cfg, raceVars, freshCalls>>

BlacklistFreshStep(k) ==
    /\ now <= ClockHorizon
    /\ freshCalls < MaxFreshSteps
    /\ freshCalls' = freshCalls + 1
    /\ blacklistedTokens' =
          IF k = 1 THEN TokenUtil_blacklistToken(blacklistedTokens, Fresh, NoDate, now)
          ELSE TokenUtil_blacklistFresh(blacklistedTokens, k, now)
    /\ UNCHANGED <<clockVars, otVars, jwtVars, cfg, raceVars, utilRevoked>>

IsBlacklistedStep(token) ==
    /\ blacklistedTokens' =
          TokenUtil_isTokenBlacklisted(blacklistedTokens, token, now).map
    /\ UNCHANGED <<clockVars, otVars, jwtVars, cfg, raceVars, utilRevoked, freshCalls>>

VerifyStep(token, secret) ==
    /\ blacklistedTokens' =
          TokenUtil_verifyToken(blacklistedTokens, token, secret, now).map
    /\ UNCHANGED <<clockVars, otVars, jwtVars, cfg, raceVars, utilRevoked, freshCalls>>

\* setInterval(() => this.cleanExpiredTokens(), 60 * 60 * 1000)
CleanStep ==
    /\ blacklistedTokens' = TokenUtil_cleanExpiredTokens(blacklistedTokens, now)
    /\ UNCHANGED <<clockVars, otVars, jwtVars, cfg, raceVars, utilRevoked, freshCalls>>

\* the clock moves by less than the tokens' lifetime, or by the default expiry
UtilDeltas == {10 * 60 * 1000, DefaultBlacklistMs}

TickUtil == \E d \in UtilDeltas : Tick(d, MaxTicks)

NextUtil ==
    \/ \E token \in UtilTokens : \E expiresAt \in ExpiresAtOf(token) :
          BlacklistStep(token, expiresAt)
    \/ \E k \in FreshRuns : BlacklistFreshStep(k)
    \/ \E token \in UtilTokens : IsBlacklistedStep(token)
    \/ \E token \in UtilTokens, secret \in {Unset, AccessSecret} :
          VerifyStep(token, secret)
    \/ CleanStep
    \/ TickUtil

SpecUtil == Init /\ [][NextUtil]_vars

-----------------------------------------------------------------------------
(* Signed tokens and the revocation list, one call at a time *)

InitSigned == \E c \in Configs : InitWith(c)

JwtDeltas == {500, ACCESS_TOKEN_EXPIRY * 1000, REFRESH_TOKEN_EXPIRY * 1000}

TickJwt == \E d \in JwtDeltas : Tick(d, MaxJwtTicks)

NextSigned ==
    \/ \E p \in Payloads : generateAccessToken(p)
    \/ \E p \in Payloads : generateRefreshToken(p)
    \/ \E p \in Payloads, f \in SignFail : generateTokenPair(p, f)
    \/ \E t \in signed, k \in TokenKinds, f \in JwtReadFail : validateToken(t, k, f)
    \/ \E t \in signed, f \in JwtWriteFail : blacklistToken(t, f)
    \/ \E i \in 0..3 : cleanupExpiredTokens(i)
    \/ TickJwt
    \/ \E k \in DOMAIN blacklist : EvictBlacklist(k)

SpecSigned == InitSigned /\ [][NextSigned]_vars

\* The revocation operations called with any token string a client can send:
\* tokens the facade signed and tokens it did not.
NextForeign ==
    \/ \E p \in Payloads : generateAccessToken(p)
    \/ \E t \in signed \cup ForeignTokens, k \in TokenKinds, f \in JwtReadFail :
          validateToken(t, k, f)
    \/ \E t \in signed \cup ForeignTokens, f \in JwtWriteFail : blacklistToken(t, f)
    \/ TickJwt
    \/ \E k \in DOMAIN blacklist : EvictBlacklist(k)

SpecForeign == InitSigned /\ [][NextForeign]_vars

\* Every write of the facade under a clock that keeps moving and a store that
\* evicts: Redis removes a key whose TTL has run out (lazily on access and by
\* its periodic expire cycle), so the eviction steps are weakly fair; entries
\* are written while the clock is within ClockHorizon.  The tokens of these
\* behaviours are signed for the payloads in LivePayloads.
LivePayloads == {[sub |-> "u1", email |-> <<"a">>, emailVerified |-> FALSE]}

NextLive ==
    \/ /\ now <= ClockHorizon
       /\ \E i \in IssueInputs : generateMagicLinkToken(i.userId, i.email, "none")
    \/ /\ now <= ClockHorizon
       /\ \E i \in IssueInputs :
             generateVerificationTokenWithExpiry(i.userId, i.email, "none")
    \/ \E rec \in issuedOT : ConsumeStep(rec.purpose, rec.token, rec.email, "none")
    \/ now <= ClockHorizon /\ \E p \in LivePayloads : generateAccessToken(p)
    \/ now <= ClockHorizon /\ \E p \in LivePayloads : generateRefreshToken(p)
    \/ now <= ClockHorizon /\ \E t \in signed : blacklistToken(t, "none")
    \/ cleanupExpiredTokens(0)
    \/ TickFar
    \/ \E k \in DOMAIN store : EvictStore(k)
    \/ \E k \in DOMAIN blacklist : EvictBlacklist(k)

SpecLive ==
    /\ Init
    /\ [][NextLive]_vars
    /\ WF_vars(TickFar)
    /\ WF_vars(\E k \in DOMAIN store : EvictStore(k))
    /\ WF_vars(\E k \in DOMAIN blacklist : EvictBlacklist(k))

-----------------------------------------------------------------------------
(* Two consume calls interleaved at every store round-trip *)

\* a caller enters consume(token, email) of an issued token; the get is sent
RaceCall(p, rec) ==
    /\ pc[p] = "idle"
    /\ pc' = [pc EXCEPT ![p] = "get"]
    /\ call' = [call EXCEPT ![p] = [purpose |-> rec.purpose, token |-> rec.token,
                                    email |-> rec.email,
                                    res |-> Ret(FALSE, NoUser, "pending")]]
    /\ UNCHANGED <<clockVars, otVars, jwtVars, cfg, sweep, utilVars>>

\* the get returns; validate runs up to its next await or to its return
RaceGet(p) ==
    /\ pc[p] = "get"
    /\ LET key == tokenKey(call[p].purpose, call[p].email, call[p].token)
           c   == afterGet(store, key, call[p].email, now)
       IN  /\ call' = [call EXCEPT ![p].res =
                          resultOf(call[p].purpose, c, store, key)]
           /\ pc' = [pc EXCEPT ![p] = IF c = "expired" THEN "expdel"
                                      ELSE IF c = "valid" THEN "del"
                                      ELSE "done"]
    /\ UNCHANGED <<clockVars, otVars, jwtVars, cfg, sweep, utilVars>>

\* the del of an expired record returns; validate and consume return
RaceExpiredDel(p) ==
    /\ pc[p] = "expdel"
    /\ store' = del(store, {tokenKey(call[p].purpose, call[p].email, call[p].token)})
    /\ expiredSeen' = expiredSeen
                        \cup {<<call[p].purpose, call[p].token, call[p].email>>}
    /\ pc' = [pc EXCEPT ![p] = "done"]
    /\ UNCHANGED <<clockVars, nIssued, issuedOT, consumed, jwtVars, cfg, call, sweep, utilVars>>

\* the del after a successful validation returns; consume returns the result
RaceDel(p) ==
    /\ pc[p] = "del"
    /\ store' = del(store, {tokenKey(call[p].purpose, call[p].email, call[p].token)})
    /\ consumed' = consumed \cup {<<call[p].purpose, call[p].token, call[p].email>>}
    /\ pc' = [pc EXCEPT ![p] = "done"]
    /\ UNCHANGED <<clockVars, nIssued, issuedOT, expiredSeen, jwtVars, cfg, call, sweep, utilVars>>

NextRace ==
    \/ \E i \in IssueInputs : generateMagicLinkToken(i.userId, i.email, "none")
    \/ \E i \in IssueInputs : generateVerificationTokenWithExpiry(i.userId, i.email, "none")
    \/ \E p \in Callers, rec \in issuedOT : RaceCall(p, rec)
    \/ \E p \in Callers : RaceGet(p)
    \/ \E p \in Callers : RaceExpiredDel(p)
    \/ \E p \in Callers : RaceDel(p)
    \/ TickOT
    \/ \E k \in DOMAIN store : EvictStore(k)

SpecRace == Init /\ [][NextRace]_vars

-----------------------------------------------------------------------------
(* Properties of the one-time tokens (Spec) *)

keyOf(rec) == tokenKey(rec.purpose, rec.email, rec.token)

Success(rec) == Ret(TRUE, rec.userId, "none")

NotFound(purpose) == Ret(FALSE, NoUser, ErrNotFound(purpose))

\* C1: for every one-time token issued and not yet expired, with the store
\* reachable, the first consume with the issuance email returns success with
\* the issued subject, and every consume after a successful one fails with the
\* not-found-or-expired outcome.
C1_ConsumeOnceThenNotFound ==
    \A rec \in issuedOT :
        LET r == ConsumeOneTime(rec.purpose, rec.token, rec.email, store, now, "none")
        IN  IF <<rec.purpose, rec.token, rec.email>> \in consumed
            THEN r.res = NotFound(rec.purpose)
            ELSE now <= rec.expiresAt => r.threw = "none" /\ r.res = Success(rec)

\* C5 as stated: every validate or consume of a one-time token made after more
\* than its TTL has elapsed since issuance fails with an expiry-class outcome
\* (expired, or not-found-or-expired).
C5_ExpiryClassAlways ==
    \A rec \in issuedOT, e \in Emails, f \in ReadFail :
        now > rec.expiresAt =>
            LET v == ValidateOneTime(rec.purpose, rec.token, e, store, now, f)
                c == ConsumeOneTime(rec.purpose, rec.token, e, store, now, f)
                expiryClass == { ErrExpired(rec.purpose), ErrNotFound(rec.purpose) }
            IN  /\ ~v.res.isValid /\ v.res.error \in expiryClass
                /\ ~c.res.isValid /\ c.res.error \in expiryClass

\* C5 amended: after more than the TTL has elapsed, validate and consume never
\* return success; they fail with an expiry-class outcome when the store calls
\* they make succeed, and with the generic validation failure when the get, or
\* the del of the expired record, fails.
C5_ExpiredNeverSucceeds ==
    \A rec \in issuedOT, e \in Emails, f \in ReadFail :
        now > rec.expiresAt =>
            LET v == ValidateOneTime(rec.purpose, rec.token, e, store, now, f)
                c == ConsumeOneTime(rec.purpose, rec.token, e, store, now, f)
                key == tokenKey(rec.purpose, e, rec.token)
                callFails == f = "get" \/ (f = "del" /\ key \in DOMAIN store)
                expected == IF callFails THEN { ErrFailed(rec.purpose) }
                            ELSE IF key \in DOMAIN store THEN { ErrExpired(rec.purpose) }
                            ELSE { ErrNotFound(rec.purpose) }
            IN  /\ ~v.res.isValid /\ v.res.userId = NoUser /\ v.res.error \in expected
                /\ c.threw = "none" /\ c.res = v.res
                /\ (~callFails => key \notin DOMAIN c.store)

\* a token past its expiry whose record the store still serves is reported
\* expired, and one whose record is gone is reported not found
C5_Witness ==
    \E rec \in issuedOT :
        /\ now > rec.expiresAt
        /\ keyOf(rec) \in DOMAIN store
        /\ <<rec.purpose, rec.token, rec.email>> \notin consumed
        /\ ConsumeOneTime(rec.purpose, rec.token, rec.email, store, now, "none").res
              = Ret(FALSE, NoUser, ErrExpired(rec.purpose))

\* C6: validate and consume with the raw token of a live one-time token and an
\* email other than the issuance email fail with the email-mismatch outcome;
\* with the issuance email they succeed.
C6_MismatchOutcome ==
    \A rec \in issuedOT, e \in Emails :
        (keyOf(rec) \in DOMAIN store /\ now <= rec.expiresAt) =>
            LET v == ValidateOneTime(rec.purpose, rec.token, e, store, now, "none")
                c == ConsumeOneTime(rec.purpose, rec.token, e, store, now, "none")
            IN  IF e = rec.email
                THEN v.res = Success(rec) /\ c.res = Success(rec)
                ELSE /\ v.res = Ret(FALSE, NoUser, ErrMismatch(rec.purpose))
                     /\ c.res = Ret(FALSE, NoUser, ErrMismatch(rec.purpose))

\* C7: for every supplied (rawToken, email), validate and consume return a
\* subject only if a token was issued for exactly that email, that raw token
\* and that subject, also when another pair builds the same store key.
C7_BoundToIssuanceEmail ==
    \A p \in Purposes, t \in SuppliedTokens, e \in Emails, f \in ReadFail :
        LET v == ValidateOneTime(p, t, e, store, now, f)
            c == ConsumeOneTime(p, t, e, store, now, f)
            issuedFor(userId) ==
                \E rec \in issuedOT :
                    /\ rec.purpose = p /\ rec.token = t /\ rec.email = e
                    /\ rec.userId = userId
        IN  /\ (v.res.isValid \/ v.res.userId # NoUser) => issuedFor(v.res.userId)
            /\ (c.res.isValid \/ c.res.userId # NoUser) => issuedFor(c.res.userId)

\* a live record and a different (rawToken, email) pair that builds its key:
\* the lookup finds the record and the call is refused
C7_Witness ==
    \E rec \in issuedOT, t \in SuppliedTokens, e \in Emails :
        /\ e # rec.email
        /\ tokenKey(rec.purpose, e, t) = keyOf(rec)
        /\ keyOf(rec) \in DOMAIN store
        /\ now <= rec.expiresAt
        /\ ~ValidateOneTime(rec.purpose, t, e, store, now, "none").res.isValid
        /\ ValidateOneTime(rec.purpose, rec.token, rec.email, store, now, "none").res
              = Success(rec)

\* C10: when a store call made by issue, validate or consume fails, the
\* operation does not report success: issue returns no raw token, validate
\* returns no isValid=true, and consume returns no result with isValid=true.
C10_FailClosed ==
    /\ \A p \in Purposes, i \in IssueInputs :
          LET r == IssueOneTime(p, i.userId, i.email, store, now, nIssued + 1, "set")
          IN  r.token = NoRaw /\ r.threw # "none" /\ r.store = store
    /\ \A p \in Purposes, t \in SuppliedTokens, e \in Emails :
          LET key == tokenKey(p, e, t)
              vg  == ValidateOneTime(p, t, e, store, now, "get")
              vd  == ValidateOneTime(p, t, e, store, now, "del")
              cg  == ConsumeOneTime(p, t, e, store, now, "get")
              cd  == ConsumeOneTime(p, t, e, store, now, "del")
              delMade == afterGet(store, key, e, now) \in {"expired", "valid"}
          IN  /\ ~vg.res.isValid /\ vg.res.userId = NoUser
              /\ ~(cg.threw = "none" /\ cg.res.isValid)
              /\ afterGet(store, key, e, now) = "expired" => ~vd.res.isValid
              /\ delMade => ~(cd.threw = "none" /\ cd.res.isValid)

\* a live token whose consume passes validation and then loses the del: the
\* caller gets the store error, not the subject
C10_Witness ==
    \E rec \in issuedOT :
        /\ ValidateOneTime(rec.purpose, rec.token, rec.email, store, now, "none").res
              = Success(rec)
        /\ ConsumeOneTime(rec.purpose, rec.token, rec.email, store, now, "del").threw
              = "StoreError"
        /\ ValidateOneTime(rec.purpose, rec.token, rec.email, store, now, "get").res
              = Ret(FALSE, NoUser, ErrFailed(rec.purpose))

-----------------------------------------------------------------------------
(* Properties of the interleaved consume calls (SpecRace) *)

\* C2: of two consume calls on the same one-time token (same purpose, raw
\* token and email) that interleave at the store round-trips, at most one
\* reports success.
C2_AtMostOneSuccess ==
    \A p \in Callers, q \in Callers :
        (/\ p # q
         /\ pc[p] = "done" /\ pc[q] = "done"
         /\ call[p].purpose = call[q].purpose
         /\ call[p].token = call[q].token
         /\ call[p].email = call[q].email)
        => ~(call[p].res.isValid /\ call[q].res.isValid)

-----------------------------------------------------------------------------
(* Properties of the signed tokens and the revocation list (SpecSigned) *)

\* C3: once blacklistToken(t) has returned, validateToken(t, kind) returns
\* isValid=false for every kind, whatever the facade did in between, while
\* the store is reachable.
C3_RevokedStaysInvalid ==
    \A t \in revoked, k \in TokenKinds :
        ~validateTokenResult(t, k, blacklist, cfg, now, "none").isValid

\* C4: generateTokenPair followed immediately by validateToken(accessToken,
\* 'access') returns isValid=true with the subject, email and emailVerified
\* that were passed in and the kind access.
C4_FreshPairValidates ==
    \A p \in Payloads :
        LET pair == tokenPairFor(p, cfg, now)
        IN  pair.threw = "none" =>
              LET v == validateTokenResult(pair.accessToken, "access", blacklist,
                                           cfg, now, "none")
              IN  /\ v.isValid
                  /\ v.payload.sub = p.sub
                  /\ v.payload.email = p.email
                  /\ v.payload.emailVerified = p.emailVerified
                  /\ v.payload.type = "access"

\* C8: validateToken(token, expectedKind) returns isValid=true only for a
\* token of that kind: an access token is rejected as 'refresh' and a refresh
\* token as 'access', with JWT_REFRESH_SECRET set and with it unset.
C8_KindMustMatch ==
    \A t \in signed, k \in TokenKinds, f \in JwtReadFail :
        validateTokenResult(t, k, blacklist, cfg, now, f).isValid => t.type = k

\* with JWT_REFRESH_SECRET unset an unexpired refresh token carries a
\* signature the access secret verifies, and is refused for its kind
C8_Witness ==
    \E t \in signed :
        /\ cfg.JWT_REFRESH_SECRET = Unset
        /\ t.type = "refresh"
        /\ verify(t, secretFor("access", cfg), now) = "ok"
        /\ validateTokenResult(t, "access", blacklist, cfg, now, "none")
              = JwtRet(FALSE, NoPayload, "Invalid token type")
        /\ validateTokenResult(t, "refresh", blacklist, cfg, now, "none").isValid

\* C9: when the store lookup fails, isTokenBlacklisted answers false and
\* validateToken goes on to verify: a validly signed, unexpired token of the
\* expected kind is accepted, also when it was blacklisted before.
C9_FailOpen ==
    \A t \in signed, k \in TokenKinds :
        /\ isTokenBlacklisted(t, blacklist, "get") = FALSE
        /\ (verify(t, secretFor(k, cfg), now) = "ok" /\ t.type = k)
              => validateTokenResult(t, k, blacklist, cfg, now, "get")
                    = JwtRet(TRUE, decode(t), "none")

\* a token whose revocation entry is in the store: refused while the store
\* answers, accepted when the lookup fails
C9_Witness ==
    \E t \in revoked :
        /\ blacklistKey(t) \in DOMAIN blacklist
        /\ validateTokenResult(t, t.type, blacklist, cfg, now, "none")
              = JwtRet(FALSE, NoPayload, "Token has been revoked")
        /\ validateTokenResult(t, t.type, blacklist, cfg, now, "get").isValid

\* C11: blacklistToken returns normally only for a token that decodes and
\* carries an expiry claim (revoked holds the tokens it returned normally
\* for); for a token that cannot be decoded, or decodes without exp, it
\* raises a malformed-token error.
C11_MalformedRejected ==
    \A t \in revoked : hasExp(t)

\* C12: for every revocation entry blacklistToken wrote, the TTL handed to the
\* store, in milliseconds, is at most the token's remaining validity at the
\* moment of the write: the entry's expire time (write time plus TTL) is not
\* after the token's expiry.
C12_TtlWithinRemainingValidity ==
    \A t \in signed :
        blacklistKey(t) \in DOMAIN blacklist
            => blacklist[blacklistKey(t)].evictAt <= t.exp * 1000

\* C13: generateTokenPair has no partial-failure outcome: when the access or
\* the refresh signing call fails it raises and returns neither token; when
\* it returns, the result holds the access and the refresh token both signed.
C13_PairAllOrNothing ==
    \A p \in Payloads, f \in SignFail :
        LET r == tokenPairResult(p, cfg, now, f)
        IN  /\ f # "none" =>
                  /\ r.threw = "InternalServerErrorException"
                  /\ r.tokens = {}
                  /\ DOMAIN r = {"threw", "tokens"}
            /\ r.threw = "none" =>
                  /\ f = "none"
                  /\ r.accessToken = accessTokenFor(p, cfg, now)
                  /\ r.refreshToken = refreshTokenFor(p, cfg, now)
                  /\ r.accessToken # NoToken /\ r.refreshToken # NoToken
                  /\ r.tokens = {r.accessToken, r.refreshToken}

\* a payload whose pair was issued in this second, and for which a call that
\* loses the refresh signing returns nothing although the access token signs
C13_Witness ==
    \E p \in Payloads :
        /\ tokenPairResult(p, cfg, now, "none").threw = "none"
        /\ tokenPairResult(p, cfg, now, "none").tokens \subseteq signed
        /\ accessTokenFor(p, cfg, now) # NoToken
        /\ tokenPairResult(p, cfg, now, "refresh")
              = [threw |-> "InternalServerErrorException", tokens |-> {}]

\* C14: validate and consume of a one-time token return the same value
\* whether the record is absent, expired, or held for another email: any two
\* calls refused by one of these checks return identical results.
C14_RefusalsIndistinguishable ==
    \A p \in Purposes, t1 \in SuppliedTokens, t2 \in SuppliedTokens,
       e1 \in Emails, e2 \in Emails :
        LET refusedBy(t, e) == afterGet(store, tokenKey(p, e, t), e, now)
            checks == {"absent", "expired", "mismatch"}
        IN  (refusedBy(t1, e1) \in checks /\ refusedBy(t2, e2) \in checks) =>
              /\ ValidateOneTime(p, t1, e1, store, now, "none").res
                    = ValidateOneTime(p, t2, e2, store, now, "none").res
              /\ ConsumeOneTime(p, t1, e1, store, now, "none").res
                    = ConsumeOneTime(p, t2, e2, store, now, "none").res

\* C15: every one-time-token operation and the sweep ends, under every store
\* failure, in a returned result or in the service's typed error
\* (InternalServerErrorException); no store error reaches the caller as it is.
C15_NoRawErrorEscapes ==
    LET outcomes == {"none", "InternalServerErrorException"}
    IN  /\ \A p \in Purposes, i \in IssueInputs, f \in IssueFail :
              IssueOneTime(p, i.userId, i.email, store, now, nIssued + 1, f).threw
                  \in outcomes
        /\ \A p \in Purposes, t \in SuppliedTokens, e \in Emails, f \in ReadFail :
              ConsumeOneTime(p, t, e, store, now, f).threw \in outcomes
        /\ \A i \in 0..3 : cleanupResult(store, blacklist, i).threw \in outcomes

\* C16: cleanupExpiredTokens removes expired entries only: every one-time
\* token record and every revocation entry that is unexpired when the sweep
\* runs is in the store when the sweep has finished.
C16_SweepKeepsLiveEntries ==
    LET r == cleanupResult(store, blacklist, 0)
    IN  /\ \A k \in DOMAIN store :
              now <= store[k].value.expiresAt
                  => k \in DOMAIN r.store /\ r.store[k] = store[k]
        /\ \A k \in DOMAIN blacklist :
              now <= blacklist[k].evictAt
                  => k \in DOMAIN r.blacklist /\ r.blacklist[k] = blacklist[k]


C18_RevocationBeforeVerify ==
    \A t \in signed, k \in TokenKinds :
        blacklistKey(t) \in DOMAIN blacklist =>
            /\ validateTokenResult(t, k, blacklist, cfg, now, "none")
                  = JwtRet(FALSE, NoPayload, "Token has been revoked")
            /\ validateTokenCalls(t, k, blacklist, "none") = <<"isTokenBlacklisted">>

\* a revoked token that has expired while its entry is still served, and that
\* the secret of the other kind does not verify: both calls answer revoked
C18_Witness ==
    \E t \in signed, k \in TokenKinds :
        /\ blacklistKey(t) \in DOMAIN blacklist
        /\ verify(t, secretFor(t.type, cfg), now) = "jwt expired"
        /\ verify(t, secretFor(k, cfg), now) = "invalid signature"
        /\ validateTokenResult(t, k, blacklist, cfg, now, "none").error
              = "Token has been revoked"
        /\ validateTokenResult(t, t.type, blacklist, cfg, now, "none").error
              = "Token has been revoked"

\* C19: blacklistToken leaves the store as it is when the ttl it computes is
\* 0 or less; when the ttl is positive it writes one entry, at the key made
\* of the hash of the token string, with that ttl and the value '1', and
\* changes no other key.
C19_BlacklistWritesOneEntry ==
    \A t \in signed :
        LET r   == blacklistTokenResult(t, blacklist, now, "none")
            ttl == t.exp - (now \div 1000)
            key == <<"blacklist", ":", hashToken(t)>>
        IN  /\ r.threw = "none"
            /\ ttl <= 0 => r.blacklist = blacklist
            /\ ttl > 0 =>
                  /\ DOMAIN r.blacklist = DOMAIN blacklist \cup {key}
                  /\ r.blacklist[key] = [value |-> "1", evictAt |-> now + ttl * 1000]
                  /\ \A k \in DOMAIN blacklist \ {key} : r.blacklist[k] = blacklist[k]

\* an expired token whose blacklisting writes nothing, beside a live token
\* whose blacklisting adds its entry to a store that holds another one
C19_Witness ==
    \E t1 \in signed, t2 \in signed :
        /\ blacklistTtl(t1, now) <= 0
        /\ blacklistTokenResult(t1, blacklist, now, "none").blacklist = blacklist
        /\ blacklistTtl(t2, now) > 0
        /\ blacklistKey(t2) \notin DOMAIN blacklist
        /\ DOMAIN blacklist # {}
        /\ Cardinality(DOMAIN blacklistTokenResult(t2, blacklist, now, "none").blacklist)
              = Cardinality(DOMAIN blacklist) + 1

\* C20: when validate finds a record whose expiresAt is earlier than the
\* current time it deletes that record, and only that record, before it
\* returns the expired failure: after a call that returned the expired failure
\* the record is absent, and with the store answering that is every such call.
C20_ExpiredRecordDeleted ==
    \A p \in Purposes, t \in SuppliedTokens, e \in Emails, f \in ReadFail :
        LET key == tokenKey(p, e, t)
            v   == ValidateOneTime(p, t, e, store, now, f)
        IN  (key \in DOMAIN store /\ store[key].value.expiresAt < now) =>
              /\ f = "none" => v.res = Ret(FALSE, NoUser, ErrExpired(p))
              /\ v.res.error = ErrExpired(p) =>
                    /\ key \notin DOMAIN v.store
                    /\ DOMAIN v.store = DOMAIN store \ {key}
                    /\ \A k \in DOMAIN v.store : v.store[k] = store[k]

\* an issued token past its expiresAt whose record the store still holds
\* before validate and no longer holds after it
C20_Witness ==
    \E rec \in issuedOT :
        LET v == ValidateOneTime(rec.purpose, rec.token, rec.email, store, now, "none")
        IN  /\ keyOf(rec) \in DOMAIN store
            /\ store[keyOf(rec)].value.expiresAt < now
            /\ v.res.error = ErrExpired(rec.purpose)
            /\ keyOf(rec) \notin DOMAIN v.store

\* C21: whenever consume returns success, the del of the token's record was
\* issued and had completed: the record is gone and nothing else changed;
\* whenever its validation fails for a reason other than expiry, consume
\* issues no del and leaves the store as it was.
C21_DeleteIffSuccess ==
    \A p \in Purposes, t \in SuppliedTokens, e \in Emails, f \in ReadFail :
        LET key == tokenKey(p, e, t)
            c   == ConsumeOneTime(p, t, e, store, now, f)
            chk == afterGet(store, key, e, now)
        IN  /\ (c.threw = "none" /\ c.res.isValid) =>
                  /\ consumeCalls(p, t, e, store, now, f) = <<"get", "del">>
                  /\ f # "del"
                  /\ key \in DOMAIN store /\ key \notin DOMAIN c.store
                  /\ DOMAIN c.store = DOMAIN store \ {key}
                  /\ \A k \in DOMAIN c.store : c.store[k] = store[k]
            /\ (~c.res.isValid /\ (f = "get" \/ chk # "expired")) =>
                  /\ consumeCalls(p, t, e, store, now, f) = <<"get">>
                  /\ c.store = store

\* a live token whose consume succeeds and removes its record, while a
\* consume of the same raw token under another email changes nothing
C21_Witness ==
    \E rec \in issuedOT, e \in Emails :
        LET ok  == ConsumeOneTime(rec.purpose, rec.token, rec.email, store, now, "none")
            bad == ConsumeOneTime(rec.purpose, rec.token, e, store, now, "none")
        IN  /\ e # rec.email
            /\ ok.res = Success(rec) /\ ok.threw = "none"
            /\ keyOf(rec) \in DOMAIN store /\ keyOf(rec) \notin DOMAIN ok.store
            /\ ~bad.res.isValid /\ bad.store = store

\* C22: Consumed and Expired are terminal: once a consume of (purpose, email,
\* rawToken) has returned success, or a validate has answered that it has
\* expired, no validate or consume of the same triple made afterwards returns
\* success, whatever the facade did in between.
C22_TerminalStates ==
    \A tr \in consumed \cup expiredSeen, f \in ReadFail :
        /\ ~ValidateOneTime(tr[1], tr[2], tr[3], store, now, f).res.isValid
        /\ ~ConsumeOneTime(tr[1], tr[2], tr[3], store, now, f).res.isValid

\* an issued token that a call has reported expired: its record is gone and
\* a later call is answered not found
C22_Witness ==
    \E rec \in issuedOT :
        /\ <<rec.purpose, rec.token, rec.email>> \in expiredSeen
        /\ keyOf(rec) \notin DOMAIN store
        /\ ValidateOneTime(rec.purpose, rec.token, rec.email, store, now, "none").res
              = NotFound(rec.purpose)
        /\ ConsumeOneTime(rec.purpose, rec.token, rec.email, store, now, "none").res
              = NotFound(rec.purpose)

\* C23: after issue(purpose, subject, email) has returned rawToken the store
\* holds, at the key built from purpose, email and rawToken, one record whose
\* subject, email and purpose are the inputs and whose expiresAt is the
\* issuance time plus 10 minutes (magic link) or 24 hours (verification);
\* no other key changed, and an immediate validate returns the subject.
C23_IssueWritesRecord ==
    \A p \in Purposes, i \in IssueInputs :
        LET r   == IssueOneTime(p, i.userId, i.email, store, now, nIssued + 1, "none")
            key == <<p, ":">> \o i.email \o <<":">> \o r.token
            ttl == IF p = "magic_link" THEN 10 * 60 * 1000 ELSE 24 * 60 * 60 * 1000
        IN  /\ r.threw = "none" /\ r.token # NoRaw
            /\ DOMAIN r.store = DOMAIN store \cup {key}
            /\ \A k \in DOMAIN store \ {key} : r.store[k] = store[k]
            /\ r.store[key].value.userId = i.userId
            /\ r.store[key].value.email = i.email
            /\ r.store[key].value.type
                  = (IF p = "magic_link" THEN "magic_link" ELSE "email_verification")
            /\ r.store[key].value.expiresAt = now + ttl
            /\ r.expiresAt = now + ttl
            /\ ValidateOneTime(p, r.token, i.email, r.store, now, "none")
                  = [store |-> r.store, res |-> Ret(TRUE, i.userId, "none")]

\* a verification token issued at this instant, after the clock has moved:
\* its record is in the store and validate returns its subject
C23_Witness ==
    \E rec \in issuedOT :
        /\ rec.purpose = "verification"
        /\ now > 0
        /\ rec.expiresAt = now + VERIFICATION_TOKEN_EXPIRY
        /\ keyOf(rec) \in DOMAIN store
        /\ store[keyOf(rec)].value.expiresAt = rec.expiresAt
        /\ ValidateOneTime(rec.purpose, rec.token, rec.email, store, now, "none").res
              = Success(rec)

-----------------------------------------------------------------------------
(* Properties of the store's entries over time (SpecLive) *)

\* C24: every entry the facade writes carries a finite positive TTL (a
\* one-time token record its purpose's lifetime, a revocation entry an expire
\* time after the write), and under a store that evicts entries whose TTL has
\* run out, a store that holds entries is eventually empty of them, consumed
\* and swept or not.
C24_EntriesEventuallyEvicted ==
    /\ [](/\ \A k \in DOMAIN store :
               store[k].evictAt - (store[k].value.expiresAt - Expiry(k[1]))
                   \in {10 * 60 * 1000, 24 * 60 * 60 * 1000}
          /\ \A t \in signed :
               LET r == blacklistTokenResult(t, blacklist, now, "none").blacklist
               IN  r # blacklist =>
                     /\ r[blacklistKey(t)].evictAt > now
                     /\ r[blacklistKey(t)].evictAt <= t.exp * 1000 + 999)
    /\ (store # EmptyStore \/ blacklist # EmptyStore)
          ~> (store = EmptyStore /\ blacklist = EmptyStore)

\* a one-time token record and a revocation entry, never consumed and never
\* swept, both past their TTL and still served by the store
C24_Witness ==
    /\ consumed = {}
    /\ \E k \in DOMAIN store : now > store[k].evictAt
    /\ \E k \in DOMAIN blacklist : now > blacklist[k].evictAt

-----------------------------------------------------------------------------
(* Independence of tokens (SpecLive) *)

-----------------------------------------------------------------------------
(* Validation reads only (Spec) *)

\* C26: validate is non-consuming: a validate of a one-time token that returns
\* success leaves the store as it was, and a validate with the same arguments
\* returns the same success after every step that changes the store or the
\* clock, except a consume of that token, the clock passing the record's expiresAt,
\* and a sweep.
C26_ValidateNonConsuming ==
    /\ [](\A p \in Purposes, tok \in SuppliedTokens, e \in Emails :
            LET v == ValidateOneTime(p, tok, e, store, now, "none")
            IN  v.res.isValid =>
                  /\ v.store = store
                  /\ ValidateOneTime(p, tok, e, v.store, now, "none").res = v.res)
    /\ [][\A p \in Purposes, tok \in SuppliedTokens, e \in Emails :
            LET v == ValidateOneTime(p, tok, e, store, now, "none")
            IN  (/\ store' # store \/ now' # now
                 /\ tokenKey(p, e, tok) \in DOMAIN store
                 /\ v.res.isValid) =>
                  \/ ValidateOneTime(p, tok, e, store', now', "none").res = v.res
                  \/ <<p, tok, e>> \in consumed'
                  \/ now' > store[tokenKey(p, e, tok)].value.expiresAt
                  \/ /\ consumed' = consumed
                     /\ \E i \in 0..3 :
                           store' = cleanupResult(store, blacklist, i).store]_vars

\* a token issued earlier that validates now and whose record the validate
\* leaves in the store
C26_Witness ==
    \E rec \in issuedOT :
        LET v == ValidateOneTime(rec.purpose, rec.token, rec.email, store, now, "none")
        IN  /\ now > rec.expiresAt - Expiry(rec.purpose)
            /\ v.res = Success(rec)
            /\ keyOf(rec) \in DOMAIN v.store
            /\ v.store = store

-----------------------------------------------------------------------------
(* Isolation by purpose (Spec) *)

\* C27: one-time tokens are isolated by purpose: a raw token issued under one
\* purpose is accepted by neither validate nor consume of the other purpose,
\* for the issuance email or any other, and a consume under one purpose
\* removes no record of the other purpose.
C27_PurposeIsolation ==
    /\ \A rec \in issuedOT, q \in Purposes, e \in Emails, f \in ReadFail :
          q # rec.purpose =>
            /\ ~ValidateOneTime(q, rec.token, e, store, now, f).res.isValid
            /\ ~ConsumeOneTime(q, rec.token, e, store, now, f).res.isValid
    /\ \A p \in Purposes, q \in Purposes, tok \in SuppliedTokens,
           e \in Emails, f \in ReadFail :
          LET c == ConsumeOneTime(p, tok, e, store, now, f).store
          IN  q # p =>
                /\ keysOf(c, q) = keysOf(store, q)
                /\ \A k \in keysOf(store, q) : c[k] = store[k]

\* a live token that its own purpose accepts for its email while the other
\* purpose answers not found and deletes nothing
C27_Witness ==
    \E rec \in issuedOT, q \in Purposes :
        LET c == ConsumeOneTime(q, rec.token, rec.email, store, now, "none")
        IN  /\ q # rec.purpose
            /\ ValidateOneTime(rec.purpose, rec.token, rec.email, store, now,
                               "none").res = Success(rec)
            /\ c.res = NotFound(q)
            /\ c.store = store

-----------------------------------------------------------------------------
(* The count a sweep reports (SpecSweep) *)

\* C28: the removedCount that cleanupExpiredTokens returns equals the number
\* of keys the sweep itself removed from the store, whatever consume, validate,
\* eviction and issuance did between its key listing and its del calls.
C28_CountIsWhatSweepRemoved ==
    sweep.pc = "done" => sweep.removedCount = sweep.removed

-----------------------------------------------------------------------------
(* The in-process blacklist of TokenUtil (SpecUtil) *)

\* C29: every token passed to TokenUtil.blacklistToken with an expiry in the
\* future is reported blacklisted by isTokenBlacklisted, and rejected by
\* verifyToken with the revoked error, at every time before that expiry,
\* whatever blacklistToken calls on other tokens were made since.
C29_BlacklistedUntilExpiry ==
    \A token \in DOMAIN utilRevoked :
        now < utilRevoked[token] =>
          /\ TokenUtil_isTokenBlacklisted(blacklistedTokens, token, now).res
          /\ TokenUtil_verifyToken(blacklistedTokens, token, Unset, now).res
                = "Token has been revoked"

\* the number of entries of the map whose key is a fresh string
freshCount(M) ==
    SumSeq([i \in DOMAIN M |-> IF M[i].token = Fresh THEN M[i].n ELSE 0])

\* blacklistToken(token, expiresAt) made on a full map M leaves every entry but
\* the oldest in place with its expiry, removes the oldest unless it is the
\* entry of token itself, and holds token with the new expiry
evictsOldestOnly(M, token, expiresAt, t) ==
    LET R      == TokenUtil_blacklistToken(M, token, expiresAt, t)
        oldest == M[1].token
    IN  /\ \A u \in UtilTokens \ {token} :
              /\ has(R, u) <=> (has(M, u) /\ u # oldest)
              /\ has(R, u) => get(R, u) = get(M, u)
        /\ freshCount(R) = freshCount(M) - (IF oldest = Fresh THEN 1 ELSE 0)
                              + (IF token = Fresh THEN 1 ELSE 0)
        /\ token # Fresh => has(R, token) /\ get(R, token) = expiryOf(expiresAt, t)
        /\ size(R) = size(M) - 1
                        + (IF has(M, token) /\ token # oldest THEN 0 ELSE 1)

====
